---------------------------- MODULE Spec2Model ----------------------------
(***************************************************************************)
(* The terminal screen buffer of buffer/buffer.go: the scrollback `lines`, *)
(* the view size, the cursor and the display-change handlers, with one     *)
(* operator per method of Buffer and one action per public operation.      *)
(*                                                                         *)
(* A Buffer is a record; a method is an operator from the Buffer before    *)
(* the call to the Buffer after it, so that Write can run its runes one    *)
(* after the other inside a single action.  The field `status` is not a    *)
(* field of the Go struct: it records how the last call ended, "ok", or    *)
(* "panic" (an index or slice bound out of range aborted the process), or  *)
(* "hang" (a loop that never ends).                                        *)
(***************************************************************************)
EXTENDS Integers, Sequences, FiniteSets, TLC

VARIABLES buffer, op, calls, written, sending, delivered

vars == <<buffer, op, calls, written, sending, delivered>>

----------------------------------------------------------------------------
(* Bounds of the model *)

MaxW == 2          \* largest view width tried
MaxH == 2          \* largest view height tried
MaxLines == 3      \* operations that would grow the scrollback past this are not taken
MaxCalls == 5      \* operations called on one buffer
FreshW == 3        \* largest view width of the write-only runs
FreshH == 2        \* largest view height of the write-only runs
MaxHandlers == 2   \* handlers attached to one buffer
MaxSenders == 2    \* goroutines blocked in a send on one channel

(* Program constants *)

LF == 10           \* 0x0a, buffer.go:115
CR == 13           \* 0x0d, buffer.go:118
Uint16 == 65536    \* cursorX, cursorY, viewWidth, viewHeight are uint16
Int16Min == 32768  \* MovePosition's x and y are int16

PlainRunes == {97}             \* 'a'
Attrs == {0}                   \* CellAttributes values; 0 is the zero value
Channels == {1, 2}             \* the channels a caller may attach

Min(a, b) == IF a < b THEN a ELSE b
Max(a, b) == IF a > b THEN a ELSE b

ToUint16(n) == n % Uint16
ToInt16(n) == ((n + Int16Min) % Uint16) - Int16Min

----------------------------------------------------------------------------
(* Cell and Line (cell.go, line.go) *)

newCell == [r |-> 0, attr |-> 0]

setRune(cell, r) == [cell EXCEPT !.r = r]

erase(cell) == setRune(cell, 0)

(* A line's `cells` is a Go slice: `cells` are the elements below its     *)
(* length, `spare` the elements of its backing array between its length   *)
(* and its capacity, which a reslice cells[:n] brings back.               *)
newLine == [cells |-> <<>>, spare |-> <<>>, wrapped |-> FALSE]

setWrapped(line, w) == [line EXCEPT !.wrapped = w]

Cap(line) == Len(line.cells) + Len(line.spare)

(* append(line.cells, c): in place when the capacity allows it, otherwise *)
(* into a new backing array whose capacity the runtime chooses: here it   *)
(* doubles, as the gc runtime does for short slices.                      *)
GrowCap(old) == Max(old + 1, 2 * old)

appendCell(line, c) ==
    IF Len(line.spare) > 0
    THEN [line EXCEPT !.cells = Append(@, c), !.spare = Tail(@)]
    ELSE [line EXCEPT !.cells = Append(@, c),
                      !.spare = [i \in 1..(GrowCap(Len(line.cells)) - Len(line.cells) - 1) |-> newCell]]

emptyCells(line) == [line EXCEPT !.cells = <<>>, !.spare = <<>>]

----------------------------------------------------------------------------
(* Buffer *)

NewBuffer(viewCols, viewLines, attr) ==
    [lines |-> <<>>, cursorX |-> 0, cursorY |-> 0,
     viewHeight |-> viewLines, viewWidth |-> viewCols,
     cursorAttr |-> attr, displayChangeHandlers |-> <<>>,
     status |-> "ok"]

Ok(b) == b.status = "ok"
Panic(b) == [b EXCEPT !.status = "panic"]
Hang(b) == [b EXCEPT !.status = "hang"]

(* An attribute store that every cell written with the cursor's attribute *)
(* shares with the cursor                                                  *)
CursorAttrStoreShared(b, attr) ==
    [b EXCEPT !.cursorAttr = attr,
              !.lines = [i \in 1..Len(b.lines) |->
                  [b.lines[i] EXCEPT !.cells = [k \in 1..Len(b.lines[i].cells) |->
                      IF b.lines[i].cells[k].attr = b.cursorAttr
                      THEN [b.lines[i].cells[k] EXCEPT !.attr = attr]
                      ELSE b.lines[i].cells[k]]]]]

(* CursorAttr returns a pointer to the cursor's attribute: the caller      *)
(* stores a new attribute through it                                       *)
CursorAttrStore(b, attr) == [b EXCEPT !.cursorAttr = attr]

Height(b) == Len(b.lines)

convertViewLineToRawLine(b, viewLine) ==
    IF b.viewHeight > Height(b)
    THEN viewLine
    ELSE viewLine + (Height(b) - b.viewHeight)

RawLine(b) == convertViewLineToRawLine(b, b.cursorY)

(* lines[RawLine()] exists; the model's sequences start at 1 *)
HasLine(b, raw) == raw < Height(b)
LineAt(b, raw) == b.lines[raw + 1]
SetLine(b, raw, line) == [b EXCEPT !.lines[raw + 1] = line]

(* for int(RawLine()) >= len(lines) { append }: with the cursor row in the *)
(* view the loop ends at Height() = cursorY + 1; with cursorY >= viewHeight *)
(* the raw line grows with every line appended and the loop never ends.    *)
ensureLinesExistToRawHeight(b) ==
    IF RawLine(b) < Height(b) THEN b
    ELSE IF b.cursorY >= b.viewHeight THEN Hang(b)
    ELSE [b EXCEPT !.lines = @ \o [i \in 1..(b.cursorY + 1 - Height(b)) |-> newLine]]

(* incrementCursorPosition comparing the cursor column itself with the width *)
incrementCursorPositionLate(b) ==
    IF b.cursorX < b.viewWidth
    THEN [b EXCEPT !.cursorX = ToUint16(@ + 1)]
    ELSE IF b.cursorY = ToUint16(b.viewHeight - 1)
    THEN [b EXCEPT !.lines = Append(@, setWrapped(newLine, TRUE)), !.cursorX = 0]
    ELSE [b EXCEPT !.lines = Append(@, setWrapped(newLine, TRUE)),
                   !.cursorX = 0, !.cursorY = ToUint16(@ + 1)]

incrementCursorPosition(b) ==
    IF ToUint16(b.cursorX + 1) < b.viewWidth
    THEN [b EXCEPT !.cursorX = ToUint16(@ + 1)]
    ELSE IF b.cursorY = ToUint16(b.viewHeight - 1)
    THEN [b EXCEPT !.lines = Append(@, setWrapped(newLine, TRUE)), !.cursorX = 0]
    ELSE IF Height(b) < b.viewHeight
    THEN [b EXCEPT !.lines = Append(@, setWrapped(newLine, TRUE)),
                   !.cursorX = 0, !.cursorY = ToUint16(@ + 1)]
    ELSE LET b1 == [b EXCEPT !.cursorX = 0]
         IN IF HasLine(b1, RawLine(b1))
            THEN SetLine(b1, RawLine(b1), setWrapped(LineAt(b1, RawLine(b1)), TRUE))
            ELSE Panic(b1)

(* CarriageReturn returning at once when the current line is missing *)
CarriageReturnNoReset(b) ==
    IF ~HasLine(b, RawLine(b))
    THEN b
    ELSE IF b.cursorX = 0 /\ LineAt(b, RawLine(b)).wrapped
    THEN [b EXCEPT !.cursorY = ToUint16(@ - 1)]
    ELSE [b EXCEPT !.cursorX = 0]

CarriageReturn(b) ==
    IF ~HasLine(b, RawLine(b))
    THEN [b EXCEPT !.cursorX = 0]
    ELSE IF b.cursorX = 0 /\ LineAt(b, RawLine(b)).wrapped
    THEN [b EXCEPT !.cursorY = ToUint16(@ - 1)]
    ELSE [b EXCEPT !.cursorX = 0]

(* NewLine's advance comparing the cursor row with viewHeight, not viewHeight-1 *)
NewLineAdvancePastView(b) ==
    IF b.cursorY = b.viewHeight
    THEN [b EXCEPT !.lines = Append(@, newLine), !.cursorX = 0]
    ELSE [b EXCEPT !.cursorX = 0, !.cursorY = ToUint16(@ + 1)]

NewLineAdvance(b) ==
    IF b.cursorY = ToUint16(b.viewHeight - 1)
    THEN [b EXCEPT !.lines = Append(@, newLine), !.cursorX = 0]
    ELSE [b EXCEPT !.cursorX = 0, !.cursorY = ToUint16(@ + 1)]

(* NewLine without the check of the wrapped flag *)
NewLineAlwaysAdvances(b) ==
    IF b.cursorX = 0 /\ ~HasLine(b, RawLine(b)) THEN Panic(b)
    ELSE NewLineAdvance(b)

NewLine(b) ==
    IF b.cursorX = 0
    THEN IF ~HasLine(b, RawLine(b)) THEN Panic(b)
         ELSE IF LineAt(b, RawLine(b)).wrapped
         THEN SetLine(b, RawLine(b), setWrapped(LineAt(b, RawLine(b)), FALSE))
         ELSE NewLineAdvance(b)
    ELSE NewLineAdvance(b)

(* for int(CursorColumn()) >= len(line.cells) { append(newCell()) } *)
RECURSIVE padCells(_, _)
padCells(line, col) ==
    IF col >= Len(line.cells) THEN padCells(appendCell(line, newCell), col) ELSE line

(* The body of Write's loop for one rune *)
WriteRune(b, r) ==
    LET b1 == ensureLinesExistToRawHeight(b)
    IN IF ~Ok(b1) THEN b1
       ELSE IF r = LF THEN NewLine(b1)
       ELSE IF r = CR THEN CarriageReturn(b1)
       ELSE LET line == padCells(LineAt(b1, RawLine(b1)), b1.cursorX)
                cell == [setRune(line.cells[b1.cursorX + 1], r) EXCEPT !.attr = b1.cursorAttr]
                b2 == SetLine(b1, RawLine(b1), [line EXCEPT !.cells[b1.cursorX + 1] = cell])
            IN incrementCursorPosition(b2)

RECURSIVE Write(_, _)
Write(b, runes) ==
    IF runes = <<>> \/ ~Ok(b) THEN b
    ELSE Write(WriteRune(b, Head(runes)), Tail(runes))

(* incrementCursorPosition takes its last branch: the cursor is in the     *)
(* last column, not on the last view row, and the view is full             *)
fallbackBranch(b) ==
    /\ ~(ToUint16(b.cursorX + 1) < b.viewWidth)
    /\ b.cursorY # ToUint16(b.viewHeight - 1)
    /\ ~(Height(b) < b.viewHeight)

(* Write(runes) takes that branch for one of its runes *)
RECURSIVE takesFallback(_, _)
takesFallback(b, runes) ==
    IF runes = <<>> \/ ~Ok(b) THEN FALSE
    ELSE LET b1 == ensureLinesExistToRawHeight(b)
         IN \/ Ok(b1) /\ Head(runes) \notin {CR, LF} /\ fallbackBranch(b1)
            \/ takesFallback(WriteRune(b, Head(runes)), Tail(runes))

(* SetPosition clamping to the view size instead of the last index *)
SetPositionToSize(b, col, line) ==
    [b EXCEPT !.cursorX = IF col >= b.viewWidth THEN b.viewWidth ELSE col,
              !.cursorY = IF line >= b.viewHeight THEN b.viewHeight ELSE line]

SetPosition(b, col, line) ==
    [b EXCEPT !.cursorX = IF col >= b.viewWidth THEN ToUint16(b.viewWidth - 1) ELSE col,
              !.cursorY = IF line >= b.viewHeight THEN ToUint16(b.viewHeight - 1) ELSE line]

MovePosition(b, x, y) ==
    LET x1 == IF ToInt16(ToInt16(b.cursorX) + x) < 0 THEN ToInt16(-ToInt16(b.cursorX)) ELSE x
        y1 == IF ToInt16(ToInt16(b.cursorY) + y) < 0 THEN ToInt16(-ToInt16(b.cursorY)) ELSE y
    IN SetPosition(b, ToUint16(ToInt16(ToInt16(b.cursorX) + x1)),
                      ToUint16(ToInt16(ToInt16(b.cursorY) + y1)))

(* for i := Height() - int(ViewHeight()); i < Height(); i++ *)
RECURSIVE visibleFrom(_, _, _)
visibleFrom(b, i, acc) ==
    IF i >= Height(b) THEN acc
    ELSE visibleFrom(b, i + 1,
                     IF i >= 0 /\ i < Len(b.lines) THEN Append(acc, b.lines[i + 1]) ELSE acc)

(* GetVisibleLines starting one line late *)
GetVisibleLinesLate(b) == visibleFrom(b, Height(b) - b.viewHeight + 1, <<>>)

GetVisibleLines(b) == visibleFrom(b, Height(b) - b.viewHeight, <<>>)

(* Clear appending one line more than the view holds *)
ClearOneMore(b) ==
    SetPosition([b EXCEPT !.lines = @ \o [i \in 1..(b.viewHeight + 1) |-> newLine]], 0, 0)

(* Clear replacing the scrollback by one blank view *)
ClearInPlace(b) ==
    SetPosition([b EXCEPT !.lines = [i \in 1..b.viewHeight |-> newLine]], 0, 0)

Clear(b) ==
    SetPosition([b EXCEPT !.lines = @ \o [i \in 1..b.viewHeight |-> newLine]], 0, 0)

(* getCurrentLine returns an error when the cursor's raw line is missing *)
getCurrentLineErr(b) == ~(RawLine(b) < Height(b))

(* EraseLine blanking the cells of the line instead of dropping them *)
EraseLineBlanking(b) ==
    IF getCurrentLineErr(b) THEN b
    ELSE LET line == LineAt(b, RawLine(b))
         IN SetLine(b, RawLine(b), [line EXCEPT !.cells = [k \in 1..Len(@) |-> erase(@[k])]])

EraseLine(b) ==
    IF getCurrentLineErr(b) THEN b
    ELSE SetLine(b, RawLine(b), emptyCells(LineAt(b, RawLine(b))))

(* cells i of the line with lo <= i <= hi and i < len(cells) erased *)
eraseRange(line, lo, hi) ==
    [line EXCEPT !.cells = [k \in 1..Len(line.cells) |->
                              IF lo <= k - 1 /\ k - 1 <= hi THEN erase(line.cells[k])
                              ELSE line.cells[k]]]

EraseLineToCursor(b) ==
    IF getCurrentLineErr(b) THEN b
    ELSE SetLine(b, RawLine(b), eraseRange(LineAt(b, RawLine(b)), 0, b.cursorX))

EraseLineAfterCursor(b) ==
    IF getCurrentLineErr(b) THEN b
    ELSE LET line == LineAt(b, RawLine(b))
         IN SetLine(b, RawLine(b), eraseRange(line, ToUint16(b.cursorX + 1), Len(line.cells) - 1))

(* line.cells[:n]: the slice cut or extended to n elements of its backing array *)
sliceTo(line, n) ==
    LET all == line.cells \o line.spare
    IN [line EXCEPT !.cells = SubSeq(all, 1, n), !.spare = SubSeq(all, n + 1, Len(all))]

(* line.cells[n:]: the slice without its first n elements *)
sliceFrom(line, n) == [line EXCEPT !.cells = SubSeq(@, n + 1, Len(@))]

(* lines[i].cells = []Cell{} for lo <= i <= hi, raw indices *)
clearLines(b, lo, hi) ==
    [b EXCEPT !.lines = [k \in 1..Len(b.lines) |->
                           IF lo <= k - 1 /\ k - 1 <= hi THEN emptyCells(b.lines[k])
                           ELSE b.lines[k]]]

EraseDisplayAfterCursor(b) ==
    IF getCurrentLineErr(b) THEN b
    ELSE LET line == LineAt(b, RawLine(b))
         IN IF b.cursorX > Cap(line) THEN Panic(b)
            ELSE clearLines(SetLine(b, RawLine(b), sliceTo(line, b.cursorX)),
                            RawLine(b) + 1, Height(b) - 1)

EraseDisplayToCursor(b) ==
    IF getCurrentLineErr(b) THEN b
    ELSE LET line == LineAt(b, RawLine(b))
         IN IF ToUint16(b.cursorX + 1) > Len(line.cells) THEN Panic(b)
            ELSE clearLines(SetLine(b, RawLine(b), sliceFrom(line, ToUint16(b.cursorX + 1))),
                            0, RawLine(b) - 1)

(* ResizeView bringing the cursor back into the new view *)
ResizeViewClamping(b, width, height) ==
    SetPosition([b EXCEPT !.viewWidth = width, !.viewHeight = height], b.cursorX, b.cursorY)

ResizeView(b, width, height) ==
    [b EXCEPT !.viewWidth = width, !.viewHeight = height]

(* GetCell's result: nil, or the cell *)
nil == [nil |-> TRUE]

GetCell(b, viewCol, viewRow) ==
    LET rawLine == convertViewLineToRawLine(b, ToUint16(viewRow))
    IN IF viewCol < 0 \/ rawLine < 0 \/ rawLine >= Len(b.lines) THEN nil
       ELSE IF viewCol >= Len(LineAt(b, rawLine).cells) THEN nil
       ELSE LineAt(b, rawLine).cells[viewCol + 1]

attachDisplayChangeHandler(b, handler) ==
    [b EXCEPT !.displayChangeHandlers = Append(@, handler)]

(* emitDisplayChange sending in the calling goroutine: the send to the     *)
(* first handler has to be received before the next one starts            *)
emitToInTurn(handlers, snd) ==
    IF handlers = <<>> THEN snd
    ELSE [snd EXCEPT ![Head(handlers)] = @ + 1]

(* emitDisplayChange starts one goroutine per handler, each blocked in     *)
(* `c <- true` until a receiver takes the value: the result is the number  *)
(* of goroutines sending on each channel after the call.                   *)
RECURSIVE emitTo(_, _)
emitTo(handlers, snd) ==
    IF handlers = <<>> THEN snd
    ELSE emitTo(Tail(handlers), [snd EXCEPT ![Head(handlers)] = @ + 1])

emitDisplayChange(b, snd) == emitTo(b.displayChangeHandlers, snd)

----------------------------------------------------------------------------
(* The operations as actions.  `op` names the operation that ran last and  *)
(* `calls` counts the operations since construction.  A process that       *)
(* panicked or hangs takes no further step.                                *)

Runes == PlainRunes \cup {CR, LF}
WriteInputs ==
    {<<r>> : r \in Runes} \cup {<<c, d>> : c \in PlainRunes, d \in PlainRunes}
        \cup {<<c, CR, LF>> : c \in PlainRunes}
Cols == 0..MaxW
Rows == 0..MaxH
Deltas == {-1, 0, 1}

NoSignals == [c \in Channels |-> 0]

Call(name, b) ==
    /\ Ok(buffer)
    /\ calls < MaxCalls
    /\ Height(b) <= MaxLines
    /\ buffer' = b
    /\ op' = name
    /\ calls' = calls + 1

Quiet == UNCHANGED <<written, sending, delivered>>

WriteCall == \E runes \in WriteInputs : Call("Write", Write(buffer, runes)) /\ Quiet
NewLineCall == Call("NewLine", NewLine(buffer)) /\ Quiet
CarriageReturnCall == Call("CarriageReturn", CarriageReturn(buffer)) /\ Quiet
SetPositionCall ==
    \E col \in Cols, line \in Rows : Call("SetPosition", SetPosition(buffer, col, line)) /\ Quiet
MovePositionCall ==
    \E x \in Deltas, y \in Deltas : Call("MovePosition", MovePosition(buffer, x, y)) /\ Quiet
ClearCall == Call("Clear", Clear(buffer)) /\ Quiet
EraseLineCall == Call("EraseLine", EraseLine(buffer)) /\ Quiet
EraseLineToCursorCall == Call("EraseLineToCursor", EraseLineToCursor(buffer)) /\ Quiet
EraseLineAfterCursorCall == Call("EraseLineAfterCursor", EraseLineAfterCursor(buffer)) /\ Quiet
EraseDisplayAfterCursorCall ==
    Call("EraseDisplayAfterCursor", EraseDisplayAfterCursor(buffer)) /\ Quiet
EraseDisplayToCursorCall ==
    Call("EraseDisplayToCursor", EraseDisplayToCursor(buffer)) /\ Quiet
ResizeViewCall ==
    \E w \in 1..MaxW, h \in 1..MaxH : Call("ResizeView", ResizeView(buffer, w, h)) /\ Quiet

Constructed(widths, heights) ==
    /\ \E w \in widths, h \in heights, a \in Attrs : buffer = NewBuffer(w, h, a)
    /\ op = "NewBuffer"
    /\ calls = 0
    /\ written = <<>>
    /\ sending = NoSignals
    /\ delivered = NoSignals

Init == Constructed(1..MaxW, 1..MaxH)

Next ==
    \/ WriteCall
    \/ NewLineCall
    \/ CarriageReturnCall
    \/ SetPositionCall
    \/ MovePositionCall
    \/ ClearCall
    \/ EraseLineCall
    \/ EraseLineToCursorCall
    \/ EraseLineAfterCursorCall
    \/ EraseDisplayAfterCursorCall
    \/ EraseDisplayToCursorCall
    \/ ResizeViewCall

Spec == Init /\ [][Next]_vars

----------------------------------------------------------------------------
(* A freshly constructed buffer that only receives Write calls: plain      *)
(* runes, then at most one line-feed, which ends the run.  `written` is    *)
(* the runes written so far.                                               *)

(* The buffer whose view keeps the size it was constructed with *)
NextNoResize ==
    \/ WriteCall
    \/ NewLineCall
    \/ CarriageReturnCall
    \/ SetPositionCall
    \/ MovePositionCall
    \/ ClearCall
    \/ EraseLineCall
    \/ EraseLineToCursorCall
    \/ EraseLineAfterCursorCall
    \/ EraseDisplayAfterCursorCall
    \/ EraseDisplayToCursorCall

SpecNoResize == Init /\ [][NextNoResize]_vars

(* The buffer whose view may be resized to no columns or no rows *)
ResizeViewAnyCall ==
    \E w \in 0..MaxW, h \in 0..MaxH : Call("ResizeView", ResizeView(buffer, w, h)) /\ Quiet

(* Write with the cursor within MaxW columns: padding a line up to column  *)
(* 65535 is left out                                                       *)
NearWriteCall == buffer.cursorX <= MaxW /\ WriteCall

NextAnySize ==
    \/ NearWriteCall
    \/ SetPositionCall
    \/ ResizeViewAnyCall
    \/ EraseLineToCursorCall
    \/ EraseLineAfterCursorCall

SpecAnySize == Init /\ [][NextAnySize]_vars

FreshRunes == {97, 98}         \* 'a', 'b'
FreshInputs ==
    {<<c>> : c \in FreshRunes} \cup {<<c, d>> : c \in FreshRunes, d \in FreshRunes}

NoLineFeedYet == \A k \in 1..Len(written) : written[k] # LF

FreshWrite ==
    \E runes \in FreshInputs \cup {<<LF>>} :
        /\ NoLineFeedYet
        /\ Call("Write", Write(buffer, runes))
        /\ written' = written \o runes
        /\ UNCHANGED <<sending, delivered>>

InitFresh == Constructed(1..FreshW, 1..FreshH)

NextFresh == FreshWrite

SpecFresh == InitFresh /\ [][NextFresh]_vars

----------------------------------------------------------------------------
(* The display-change handlers.  A goroutine started by emitDisplayChange  *)
(* stays blocked in its send until the channel's observer receives.        *)

Handlers == buffer.displayChangeHandlers

AttachCall ==
    \E c \in Channels :
        /\ Len(Handlers) < MaxHandlers
        /\ Call("attachDisplayChangeHandler", attachDisplayChangeHandler(buffer, c))
        /\ Quiet

EmitCall ==
    /\ \A c \in Channels : emitDisplayChange(buffer, sending)[c] <= MaxSenders
    /\ Call("emitDisplayChange", buffer)
    /\ sending' = emitDisplayChange(buffer, sending)
    /\ UNCHANGED <<written, delivered>>

(* The observer of channel c receives one value: one blocked send ends *)
Receive(c) ==
    /\ sending[c] > 0
    /\ sending' = [sending EXCEPT ![c] = @ - 1]
    /\ delivered' = [delivered EXCEPT ![c] = Min(@ + 1, MaxSenders)]
    /\ UNCHANGED <<buffer, op, calls, written>>

ReceiveSome == \E c \in Channels : Receive(c)

InitNotify == Constructed({MaxW}, {MaxH})

NextNotify ==
    \/ AttachCall
    \/ EmitCall
    \/ ReceiveSome
    \/ WriteCall
    \/ ClearCall
    \/ EraseLineCall

SpecNotify == InitNotify /\ [][NextNotify]_vars

(* The notification process when only one channel has an observer that    *)
(* receives: the sends on every other channel stay blocked for ever.  The  *)
(* observer is a goroutine blocked in a receive, so the scheduler runs it  *)
(* whenever a sender is ready: weak fairness of its receive.               *)
Drained == CHOOSE c \in Channels : TRUE
ReceiveDrained == Receive(Drained)

NextUndrained ==
    \/ AttachCall
    \/ EmitCall
    \/ ReceiveDrained

SpecUndrained == InitNotify /\ [][NextUndrained]_vars /\ WF_vars(ReceiveDrained)

(* Writing with a changing cursor attribute.  `written` keeps, for each    *)
(* position a plain rune was stored at, the attribute the cursor had at    *)
(* the latest store there.                                                 *)
Styles == {0, 1}

Stored(b) ==
    [raw |-> RawLine(ensureLinesExistToRawHeight(b)), col |-> b.cursorX, attr |-> b.cursorAttr]

ElseWhere(log, e) ==
    LET Other(f) == f.raw # e.raw \/ f.col # e.col
    IN SelectSeq(log, Other)

StyledWrite ==
    \E r \in PlainRunes :
        /\ Call("Write", Write(buffer, <<r>>))
        /\ written' = Append(ElseWhere(written, Stored(buffer)), Stored(buffer))
        /\ UNCHANGED <<sending, delivered>>

CursorAttrCall ==
    \E a \in Styles : Call("CursorAttr", CursorAttrStore(buffer, a)) /\ Quiet

InitStyled ==
    /\ \E w \in 1..MaxW, h \in 1..MaxH, a \in Styles : buffer = NewBuffer(w, h, a)
    /\ op = "NewBuffer"
    /\ calls = 0
    /\ written = <<>>
    /\ sending = NoSignals
    /\ delivered = NoSignals

NextStyled ==
    \/ StyledWrite
    \/ CursorAttrCall
    \/ SetPositionCall

SpecStyled == InitStyled /\ [][NextStyled]_vars

----------------------------------------------------------------------------
(* Properties *)

PositiveView(b) == b.viewWidth >= 1 /\ b.viewHeight >= 1
CursorInView(b) == b.cursorX < b.viewWidth /\ b.cursorY < b.viewHeight
CurrentLineMissing(b) == ~HasLine(b, RawLine(b))
EraseOps ==
    {"EraseLine", "EraseLineToCursor", "EraseLineAfterCursor",
     "EraseDisplayAfterCursor", "EraseDisplayToCursor"}

(* C1: starting from a freshly constructed buffer of positive size, no     *)
(* sequence of public mutator calls reaches a call that aborts: every      *)
(* mutator completes normally in every reachable state.                    *)
C1_NoMutatorAborts == buffer.status # "panic"

(* C2: whenever a mutator that changes the visible content completes on a  *)
(* buffer with handler channels attached, a signal is sent to every        *)
(* attached channel (a goroutine starts sending on it).                    *)
C2_MutationSignalsEveryHandler ==
    [][(/\ op' \in {"Write", "Clear", "EraseLine"}
        /\ calls' = calls + 1
        /\ Ok(buffer')
        /\ buffer'.lines # buffer.lines)
       => \A k \in 1..Len(Handlers) : sending'[Handlers[k]] > sending[Handlers[k]]]_vars

(* C3: on a fresh buffer of width w, writing exactly w plain runes and     *)
(* then a line-feed adds no row for the line-feed: Height() is 2, the      *)
(* cursor is at column 0 of raw line 1, where it was before the line-feed, *)
(* and raw line 1 has its wrapped flag cleared.                            *)
C3_LineFeedAfterFullRowAddsNoRow ==
    (/\ Ok(buffer)
     /\ Len(written) = buffer.viewWidth + 1
     /\ written[Len(written)] = LF)
    => LET fresh == NewBuffer(buffer.viewWidth, buffer.viewHeight, buffer.cursorAttr)
           before == Write(fresh, SubSeq(written, 1, buffer.viewWidth))
       IN /\ Height(buffer) = 2
          /\ Height(before) = 2
          /\ buffer.cursorX = 0
          /\ RawLine(buffer) = 1
          /\ before.cursorX = 0
          /\ RawLine(before) = 1
          /\ buffer.cursorY = before.cursorY
          /\ LineAt(before, 1).wrapped
          /\ ~LineAt(buffer, 1).wrapped

C3_Witness ==
    /\ Ok(buffer)
    /\ op = "Write"
    /\ buffer.viewWidth >= 2
    /\ Len(written) = buffer.viewWidth + 1
    /\ written[Len(written)] = LF
    /\ Height(buffer) = 2

(* C4: GetVisibleLines() returns exactly the lines at raw indices          *)
(* max(0, H - vh) .. H-1 in order: vh lines ending with lines[H-1] when    *)
(* H > vh, all H lines when H <= vh, and its element i is the line view    *)
(* row i maps to.                                                          *)
C4_VisibleLinesAreTheLastViewHeight ==
    LET H == Height(buffer)
        vh == buffer.viewHeight
        first == Max(0, H - vh)
        vis == GetVisibleLines(buffer)
    IN /\ vis = SubSeq(buffer.lines, first + 1, H)
       /\ H > vh => Len(vis) = vh /\ vis[Len(vis)] = buffer.lines[H]
       /\ H <= vh => vis = buffer.lines
       /\ \A i \in 0..(Len(vis) - 1) :
            /\ convertViewLineToRawLine(buffer, i) = i + first
            /\ vis[i + 1] = LineAt(buffer, convertViewLineToRawLine(buffer, i))

C4_Witness ==
    /\ Height(buffer) > buffer.viewHeight
    /\ buffer.viewHeight >= 2
    /\ Len(GetVisibleLines(buffer)) = buffer.viewHeight
    /\ GetVisibleLines(buffer)[1] # buffer.lines[1]
    /\ \E k \in 1..Height(buffer) : buffer.lines[k].cells # <<>>

(* C5: for a buffer of positive size and every col and row,                *)
(* SetPosition(col, row) leaves the cursor at (min(col, viewWidth-1),      *)
(* min(row, viewHeight-1)) and changes nothing else.                       *)
PositionInputs == (0..(MaxW + 1)) \cup {Uint16 - 1}

C5_SetPositionClamps ==
    (Ok(buffer) /\ PositiveView(buffer))
    => \A col \in PositionInputs, row \in PositionInputs :
         SetPosition(buffer, col, row) =
            [buffer EXCEPT !.cursorX = Min(col, buffer.viewWidth - 1),
                           !.cursorY = Min(row, buffer.viewHeight - 1)]

C5_Witness ==
    /\ Ok(buffer)
    /\ op = "SetPosition"
    /\ buffer.viewWidth >= 2
    /\ buffer.cursorX = buffer.viewWidth - 1
    /\ buffer.cursorY = 0
    /\ Height(buffer) > 0
    /\ SetPosition(buffer, buffer.viewWidth, 0) = buffer

(* C6: on a fresh buffer of width w, after Write of n plain runes and no   *)
(* other operation, rune k is stored at raw line k \div w, column k % w,   *)
(* every raw line with index >= 1 is marked wrapped, and the cursor column *)
(* is n % w; on a 3-wide, 2-tall buffer the fourth rune is GetCell(0, 1).  *)
C6_PlainRunesFillRowByRow ==
    (Ok(buffer) /\ NoLineFeedYet)
    => LET n == Len(written)
           w == buffer.viewWidth
       IN /\ \A k \in 0..(n - 1) :
               /\ HasLine(buffer, k \div w)
               /\ Len(LineAt(buffer, k \div w).cells) > k % w
               /\ LineAt(buffer, k \div w).cells[(k % w) + 1].r = written[k + 1]
          /\ \A i \in 1..(Height(buffer) - 1) : LineAt(buffer, i).wrapped
          /\ buffer.cursorX = n % w
          /\ (w = 3 /\ buffer.viewHeight = 2 /\ n = 4)
                => /\ GetCell(buffer, 0, 1) # nil
                   /\ GetCell(buffer, 0, 1).r = written[4]

C6_Witness ==
    /\ Ok(buffer)
    /\ op = "Write"
    /\ buffer.viewWidth = 3
    /\ buffer.viewHeight = 2
    /\ written = <<97, 98, 98, 97>>
    /\ GetCell(buffer, 0, 1) = [r |-> 97, attr |-> buffer.cursorAttr]

(* C7: with viewWidth >= 2 and the cursor in the view at column 0 of a     *)
(* line that is empty and not wrapped, or not yet allocated,               *)
(* Write(c, CR, LF) leaves the cursor at column 0 with RawLine() one       *)
(* greater; the view row is one greater when the cursor was not on the     *)
(* last view row, and unchanged when it was.                               *)
C7_Pre(b) ==
    /\ Ok(b)
    /\ b.viewWidth >= 2
    /\ CursorInView(b)
    /\ b.cursorX = 0
    /\ \/ CurrentLineMissing(b)
       \/ LineAt(b, RawLine(b)).cells = <<>> /\ ~LineAt(b, RawLine(b)).wrapped

C7_Cursor(b, b2) ==
    /\ Ok(b2)
    /\ b2.cursorX = 0
    /\ RawLine(b2) = RawLine(b) + 1
    /\ b.cursorY # b.viewHeight - 1 => b2.cursorY = b.cursorY + 1
    /\ b.cursorY = b.viewHeight - 1 => b2.cursorY = b.cursorY

(* C7 as stated: on the last view row the scrollback grows by one          *)
(* non-wrapped line.                                                       *)
C7_RuneReturnFeedAdvancesOneRow ==
    C7_Pre(buffer)
    => \A c \in PlainRunes :
         LET b2 == Write(buffer, <<c, CR, LF>>)
         IN /\ C7_Cursor(buffer, b2)
            /\ buffer.cursorY = buffer.viewHeight - 1
                 => /\ Height(b2) = Height(buffer) + 1
                    /\ ~b2.lines[Height(b2)].wrapped

(* C7 amended: on the last view row one non-wrapped line is appended after *)
(* the cursor's line, which is first allocated when it did not exist.      *)
C7_RuneReturnFeedAdvancesOneRowPastCurrentLine ==
    C7_Pre(buffer)
    => \A c \in PlainRunes :
         LET b2 == Write(buffer, <<c, CR, LF>>)
             allocated == Max(Height(buffer), buffer.cursorY + 1)
         IN /\ C7_Cursor(buffer, b2)
            /\ buffer.cursorY = buffer.viewHeight - 1
                 => /\ Height(b2) = allocated + 1
                    /\ b2.lines[Height(b2)] = newLine
            /\ buffer.cursorY # buffer.viewHeight - 1 => Height(b2) = allocated

C7_Witness ==
    /\ Ok(buffer)
    /\ op = "Write"
    /\ calls = 1
    /\ buffer.viewWidth >= 2
    /\ buffer.cursorX = 0
    /\ buffer.cursorY = buffer.viewHeight - 1
    /\ Height(buffer) = buffer.viewHeight + 1
    /\ LineAt(buffer, RawLine(buffer) - 1).cells = <<[r |-> 97, attr |-> buffer.cursorAttr]>>
    /\ LineAt(buffer, RawLine(buffer)) = newLine

(* C8: Clear() increases Height() by exactly viewHeight, sets the cursor   *)
(* to (0,0), leaves every earlier line unchanged at its raw index and      *)
(* appends only empty non-wrapped lines, so that every view row then maps  *)
(* to one of the new blank lines.                                          *)
C8_ClearAppendsBlankView ==
    (Ok(buffer) /\ PositiveView(buffer))
    => LET b2 == Clear(buffer)
           H == Height(buffer)
       IN /\ Height(b2) = H + buffer.viewHeight
          /\ b2.cursorX = 0
          /\ b2.cursorY = 0
          /\ SubSeq(b2.lines, 1, H) = buffer.lines
          /\ \A i \in (H + 1)..Height(b2) :
               b2.lines[i].cells = <<>> /\ ~b2.lines[i].wrapped
          /\ b2 = [buffer EXCEPT !.lines = b2.lines, !.cursorX = 0, !.cursorY = 0]
          /\ \A row \in 0..(buffer.viewHeight - 1) :
               /\ convertViewLineToRawLine(b2, row) >= H
               /\ convertViewLineToRawLine(b2, row) < Height(b2)

C8_Witness ==
    /\ Ok(buffer)
    /\ op = "Clear"
    /\ buffer.cursorX = 0
    /\ buffer.cursorY = 0
    /\ Height(buffer) > buffer.viewHeight
    /\ buffer.lines[1].cells # <<>>
    /\ \A row \in 0..(buffer.viewHeight - 1) :
         LineAt(buffer, convertViewLineToRawLine(buffer, row)).cells = <<>>

(* C9: where the cursor's raw line index is >= Height(), each of the five  *)
(* erase operations leaves the whole buffer unchanged, and CarriageReturn  *)
(* changes only the cursor column, setting it to 0.                        *)
C9_MissingLineIsBenign ==
    (Ok(buffer) /\ CurrentLineMissing(buffer))
    => /\ EraseLine(buffer) = buffer
       /\ EraseLineToCursor(buffer) = buffer
       /\ EraseLineAfterCursor(buffer) = buffer
       /\ EraseDisplayAfterCursor(buffer) = buffer
       /\ EraseDisplayToCursor(buffer) = buffer
       /\ CarriageReturn(buffer) = [buffer EXCEPT !.cursorX = 0]

C9_Witness ==
    /\ Ok(buffer)
    /\ op \in EraseOps
    /\ CurrentLineMissing(buffer)
    /\ Height(buffer) > 0
    /\ buffer.cursorX > 0
    /\ CarriageReturn(buffer) # buffer

(* C10: GetCell(col, row) returns "absent" exactly when col < 0, or the    *)
(* raw line row + max(0, Height() - viewHeight) is >= Height(), or col >=  *)
(* the length of that raw line; otherwise it returns the cell at column    *)
(* col of that raw line.                                                   *)
CellCols == (-1)..MaxW
CellRows == (0..MaxH) \cup {Uint16 - 1, Uint16, Uint16 + 1}

C10_GetCellAbsentExactly ==
    \A col \in CellCols, row \in CellRows :
       LET raw == row + Max(0, Height(buffer) - buffer.viewHeight)
       IN IF col < 0 \/ raw >= Height(buffer) THEN GetCell(buffer, col, row) = nil
          ELSE IF col >= Len(LineAt(buffer, raw).cells) THEN GetCell(buffer, col, row) = nil
          ELSE GetCell(buffer, col, row) = LineAt(buffer, raw).cells[col + 1]

(* C11: the scrollback is append-only: across every operation Height()     *)
(* never decreases and a line that exists at raw index i stays at raw       *)
(* index i, where an operation may change its cells or its wrapped flag    *)
(* but never removes it, inserts a line before it or reorders lines.       *)
IsSuffix(s, t) == Len(s) <= Len(t) /\ s = SubSeq(t, Len(t) - Len(s) + 1, Len(t))

(* line l2 is line l edited in place: its flag set or cleared, its cells   *)
(* emptied, resliced, erased or written                                    *)
EditedInPlace(l, l2) ==
    \/ l2.cells = l.cells /\ l2.spare = l.spare
    \/ l2 = emptyCells(l)
    \/ l2.wrapped = l.wrapped /\ IsSuffix(l2.cells \o l2.spare, l.cells \o l.spare)
    \/ /\ Len(l2.cells) >= Len(l.cells)
       /\ \A k \in 1..Len(l.cells) :
            \/ l2.cells[k] = l.cells[k]
            \/ l2.cells[k] = erase(l.cells[k])
            \/ l2.cells[k].r \in PlainRunes

C11_ScrollbackIsAppendOnly ==
    [][/\ Height(buffer') >= Height(buffer)
       /\ \A i \in 1..Height(buffer) : EditedInPlace(buffer.lines[i], buffer'.lines[i])]_vars

C11_Witness ==
    /\ Ok(buffer)
    /\ op = "EraseDisplayToCursor"
    /\ Height(buffer) >= 2
    /\ RawLine(buffer) >= 1
    /\ buffer.lines[1] = newLine
    /\ calls >= 3

(* C12: emitDisplayChange returns without waiting for any receiver, with   *)
(* any number of channels attached, unbuffered and never received ones     *)
(* included: the call completes with a goroutine sending on every attached *)
(* channel and nothing received, and a channel nobody drains keeps neither *)
(* the caller from continuing nor the signal from reaching the observer    *)
(* that is receiving on another channel.                                   *)
C12_EmitNeverWaits ==
    /\ [][(op' = "emitDisplayChange" /\ calls' = calls + 1)
            => /\ Ok(buffer')
               /\ delivered' = delivered
               /\ \A k \in 1..Len(Handlers) :
                      sending'[Handlers[k]] > sending[Handlers[k]]]_vars
    /\ (sending[Drained] > 0) ~> (sending[Drained] = 0)

C12_Witness ==
    /\ Ok(buffer)
    /\ op = "emitDisplayChange"
    /\ \E c \in Channels : c # Drained /\ sending[c] > 1 /\ delivered[c] = 0
    /\ delivered[Drained] > 0

(* C13: a written cell's attribute is a snapshot: once Write has stored a  *)
(* plain rune while the cursor attribute was A, changing the cursor        *)
(* attribute through CursorAttr() and writing at other positions leave     *)
(* that cell's attribute equal to A.                                       *)
C13_WrittenAttributeIsASnapshot ==
    Ok(buffer)
    => \A k \in 1..Len(written) :
          /\ HasLine(buffer, written[k].raw)
          /\ Len(LineAt(buffer, written[k].raw).cells) > written[k].col
          /\ LineAt(buffer, written[k].raw).cells[written[k].col + 1].attr = written[k].attr

C13_Witness ==
    /\ Ok(buffer)
    /\ op = "Write"
    /\ Len(written) >= 2
    /\ written[1].attr # buffer.cursorAttr
    /\ written[2].attr = buffer.cursorAttr
    /\ LineAt(buffer, written[1].raw).cells[written[1].col + 1].attr = written[1].attr

(* C14: ResizeView(width, height) changes only viewWidth and viewHeight:   *)
(* the lines, their cells and wrapped flags and the cursor position are    *)
(* what they were before the call (the cursor is not brought back into     *)
(* the new bounds and no line is reflowed).                                *)
C14_ResizeViewChangesOnlyTheViewSize ==
    [][(op' = "ResizeView" /\ calls' = calls + 1)
        => /\ buffer'.lines = buffer.lines
           /\ buffer'.cursorX = buffer.cursorX
           /\ buffer'.cursorY = buffer.cursorY
           /\ buffer'.cursorAttr = buffer.cursorAttr
           /\ buffer'.displayChangeHandlers = buffer.displayChangeHandlers
           /\ buffer'.status = buffer.status]_vars

C14_Witness ==
    /\ Ok(buffer)
    /\ op = "ResizeView"
    /\ buffer.cursorX >= buffer.viewWidth
    /\ buffer.cursorY >= buffer.viewHeight
    /\ Height(buffer) > buffer.viewHeight
    /\ buffer.lines[1].cells # <<>>

(* C15: in every state where the current line exists, EraseLine leaves     *)
(* that line with an empty cell sequence and leaves its wrapped flag,      *)
(* every other line and the cursor unchanged; applying EraseLine twice     *)
(* gives the same state as applying it once.                               *)
C15_EraseLineEmptiesTheCurrentLine ==
    (Ok(buffer) /\ HasLine(buffer, RawLine(buffer)))
    => LET e == EraseLine(buffer)
           raw == RawLine(buffer)
       IN /\ Ok(e)
          /\ Height(e) = Height(buffer)
          /\ LineAt(e, raw).cells = <<>>
          /\ LineAt(e, raw).wrapped = LineAt(buffer, raw).wrapped
          /\ \A i \in 0..(Height(buffer) - 1) : i # raw => LineAt(e, i) = LineAt(buffer, i)
          /\ e.cursorX = buffer.cursorX
          /\ e.cursorY = buffer.cursorY
          /\ EraseLine(e) = e

C15_Witness ==
    /\ Ok(buffer)
    /\ op = "EraseLine"
    /\ Height(buffer) >= 2
    /\ LineAt(buffer, RawLine(buffer)) = [newLine EXCEPT !.wrapped = TRUE]
    /\ \E i \in 0..(Height(buffer) - 1) : LineAt(buffer, i).cells # <<>>

(* C16: when ResizeView is never called after construction with positive   *)
(* dimensions, CursorColumn() < viewWidth and CursorLine() < viewHeight     *)
(* hold after every sequence of Write, NewLine, CarriageReturn,            *)
(* SetPosition, MovePosition, Clear and erase calls; in particular         *)
(* CarriageReturn at column 0 of a wrapped line never takes the cursor     *)
(* above view row 0.                                                       *)
C16_CursorStaysInView == Ok(buffer) => CursorInView(buffer)

(* C17: when ResizeView is never called after construction, no sequence of *)
(* public operations executes the fallback branch of the cursor increment  *)
(* rule (a wrap at the last column while the cursor is not on the last     *)
(* view row and Height() >= viewHeight).                                   *)
C17_FallbackBranchIsNeverTaken ==
    [][(op' = "Write" /\ calls' = calls + 1)
        => \A runes \in WriteInputs :
              buffer' = Write(buffer, runes) => ~takesFallback(buffer, runes)]_vars

(* C18: in every state where the current line exists, with L cells and     *)
(* the cursor at column x, EraseDisplayAfterCursor leaves the current line *)
(* with exactly min(x, L) cells, each the cell that was at that column     *)
(* (never longer than before, none at column >= x), empties every raw line *)
(* below RawLine(), and leaves the lines above and the cursor unchanged.   *)
C18_EraseDisplayAfterCursorTruncates ==
    (Ok(buffer) /\ HasLine(buffer, RawLine(buffer)))
    => LET e == EraseDisplayAfterCursor(buffer)
           raw == RawLine(buffer)
           old == LineAt(buffer, raw).cells
           kept == Min(buffer.cursorX, Len(old))
       IN /\ Ok(e)
          /\ Height(e) = Height(buffer)
          /\ LineAt(e, raw).cells = SubSeq(old, 1, kept)
          /\ \A i \in (raw + 1)..(Height(buffer) - 1) : LineAt(e, i).cells = <<>>
          /\ \A i \in 0..(raw - 1) : LineAt(e, i) = LineAt(buffer, i)
          /\ e.cursorX = buffer.cursorX
          /\ e.cursorY = buffer.cursorY

(* C19: in every state where the current line exists, with the cursor at   *)
(* column x, EraseLineToCursor blanks exactly the materialized cells at    *)
(* columns 0..x and EraseLineAfterCursor exactly those at columns > x;     *)
(* each leaves the line's length, its other cells, every other line and    *)
(* the cursor unchanged, so that applying both, in either order, blanks    *)
(* every materialized cell of the current line.                            *)
BlankedWhere(b, b2, Blank(_)) ==
    LET raw == RawLine(b)
        line == LineAt(b, raw)
    IN /\ Ok(b2)
       /\ b2.cursorX = b.cursorX
       /\ b2.cursorY = b.cursorY
       /\ Height(b2) = Height(b)
       /\ \A i \in 0..(Height(b) - 1) : i # raw => LineAt(b2, i) = LineAt(b, i)
       /\ LineAt(b2, raw) =
             [line EXCEPT !.cells = [k \in 1..Len(line.cells) |->
                 IF Blank(k - 1) THEN erase(line.cells[k]) ELSE line.cells[k]]]

C19_LineErasesSplitAtTheCursor ==
    (Ok(buffer) /\ HasLine(buffer, RawLine(buffer)))
    => LET ToCursor(col) == col <= buffer.cursorX
           AfterCursor(col) == col > buffer.cursorX
           All(col) == TRUE
       IN /\ BlankedWhere(buffer, EraseLineToCursor(buffer), ToCursor)
          /\ BlankedWhere(buffer, EraseLineAfterCursor(buffer), AfterCursor)
          /\ BlankedWhere(buffer, EraseLineAfterCursor(EraseLineToCursor(buffer)), All)
          /\ BlankedWhere(buffer, EraseLineToCursor(EraseLineAfterCursor(buffer)), All)

(* C20: for a buffer with positive view dimensions and the cursor (x, y)   *)
(* in the view, MovePosition(dx, dy) leaves the cursor at                  *)
(* (min(max(x + dx, 0), viewWidth - 1), min(max(y + dy, 0), viewHeight - 1)) *)
(* with x + dx and y + dy computed as unbounded integers, for every 16-bit *)
(* signed dx and dy, those whose sum exceeds 32767 included.               *)
MoveInputs == {-Int16Min, -1, 0, 1, Int16Min - 1}

C20_MovePositionClampsTheUnboundedSum ==
    (Ok(buffer) /\ PositiveView(buffer) /\ CursorInView(buffer))
    => \A dx \in MoveInputs, dy \in MoveInputs :
          LET m == MovePosition(buffer, dx, dy)
          IN /\ m.cursorX = Min(Max(buffer.cursorX + dx, 0), buffer.viewWidth - 1)
             /\ m.cursorY = Min(Max(buffer.cursorY + dy, 0), buffer.viewHeight - 1)

====
